---- MODULE Spec2Model ----
(***************************************************************************)
(* Model of the product-lookup layer of main2.py (calorie_finder_app):     *)
(* the SearchWorker thread, the CalorieFinderApp search handlers and       *)
(* result slots, and the pure nutrient extraction extract_kcal.            *)
(*                                                                         *)
(* JSON / Python values are tagged records so that values of different     *)
(* Python types can be compared: None is JNull, a number is Num(n), a str  *)
(* is Str(s), a dict is Dict(f) with f a function from keys to values, a   *)
(* list is List(q) with q a sequence.  User-visible Russian texts are      *)
(* transliterated to ASCII.                                                *)
(***************************************************************************)
EXTENDS Integers, Sequences, FiniteSets, TLC

VARIABLES
    btn_enabled,      \* slot -> isEnabled() of barcode_search_btn / name_search_btn
    progress_visible, \* slot -> isVisible() of barcode_progress / name_progress
    table,            \* slot -> rows of barcode_table / name_table (8 cell texts each)
    status,           \* statusBar() message
    dialog,           \* the QMessageBox the last GUI handler showed, if any
    search_worker,    \* self.search_worker: index of the worker held, 0 before any
    workers,          \* every SearchWorker created so far, in creation order
    queue,            \* signals emitted by worker threads, queued to the GUI thread
    json_error_kind,  \* what Response.json() raises on a malformed body
    nutriments,       \* argument of a standalone extract_kcal call
    normalized,       \* its return value
    normDone          \* whether that call has returned

vars == <<btn_enabled, progress_visible, table, status, dialog, search_worker,
          workers, queue, json_error_kind, nutriments, normalized, normDone>>

guiVars == <<btn_enabled, progress_visible, table, status, dialog, search_worker,
             workers, queue, json_error_kind>>

normVars == <<nutriments, normalized, normDone>>

\* ------------------------------------------------------------------ bounds

\* Most SearchWorker objects created in one run of the model.
MaxStarts == 2

\* Most keys present in a nutriments mapping given to extract_kcal.
MaxKeys == 3

\* Largest number used as a nutrient value.
MaxVal == 1

\* ------------------------------------------------------------ Python values

JNull == [t |-> "null"]

None == JNull

Num(n) == [t |-> "num", n |-> n]

Str(s) == [t |-> "str", s |-> s]

Dict(f) == [t |-> "dict", d |-> f]

List(q) == [t |-> "list", l |-> q]

EmptyDict == [k \in {} |-> None]

\* bool(v) of Python: None, 0, "", {} and [] are false.
Truthy(v) ==
    CASE v.t = "null" -> FALSE
      [] v.t = "num"  -> v.n /= 0
      [] v.t = "str"  -> v.s /= ""
      [] v.t = "dict" -> DOMAIN v.d /= {}
      [] v.t = "list" -> Len(v.l) /= 0

\* `a or b` of Python: a if a is true, else b.
PyOr(a, b) == IF Truthy(a) THEN a ELSE b

\* d.get(k, default) on a Python dict d (a function).
GetOr(d, k, default) == IF k \in DOMAIN d THEN d[k] ELSE default

\* d.get(k): None when the key is missing.
Get(d, k) == GetOr(d, k, None)

\* str(v) as the table rendering uses it.
PyStr(v) ==
    CASE v.t = "null" -> "None"
      [] v.t = "num"  -> ToString(v.n)
      [] v.t = "str"  -> v.s
      [] OTHER        -> "<object>"

\* -------------------------------------------------------------- extract_kcal

ProviderKeys ==
    {"energy-kcal_100g", "energy-kcal_value", "proteins_100g", "fat_100g",
     "carbohydrates_100g", "energy-kcal_serving", "proteins_serving",
     "fat_serving", "carbohydrates_serving"}

TargetKeys ==
    {"kcal_100g", "protein_100g", "fat_100g", "carbs_100g",
     "kcal_serving", "protein_serving", "fat_serving", "carbs_serving"}

\* The dict `data` built by extract_kcal before filtering.
ExtractData(n) ==
    ("kcal_100g" :> PyOr(Get(n, "energy-kcal_100g"), Get(n, "energy-kcal_value")))
    @@ ("protein_100g" :> Get(n, "proteins_100g"))
    @@ ("fat_100g" :> Get(n, "fat_100g"))
    @@ ("carbs_100g" :> Get(n, "carbohydrates_100g"))
    @@ ("kcal_serving" :> Get(n, "energy-kcal_serving"))
    @@ ("protein_serving" :> Get(n, "proteins_serving"))
    @@ ("fat_serving" :> Get(n, "fat_serving"))
    @@ ("carbs_serving" :> Get(n, "carbohydrates_serving"))

\* extract_kcal(nutriments): data without the entries whose value is None.
extract_kcal(n) ==
    LET data == ExtractData(n)
    IN  [k \in {x \in DOMAIN data : data[x] /= None} |-> data[k]]

\* ------------------------------------------------------------- provider data

Slots == {"barcode", "name"}

\* Characters str.strip() removes.
Whitespace == {" ", "\t"}

\* Texts the user may have typed in a line edit, as character sequences.
TextInputs ==
    {<<>>, <<" ", "\t">>, <<"4", "5", "6">>, <<" ", "4", "5", "6", "\t">>}

P_Milk ==
    Dict(("code" :> Str("123")) @@ ("product_name" :> Str("Milk"))
         @@ ("nutriments" :> Dict(("energy-kcal_value" :> Num(64))
                                  @@ ("proteins_100g" :> Num(3))))
         @@ ("serving_size" :> Num(250)))

P_Bare == Dict("code" :> Str("456"))

Malformed == [t |-> "malformed"]

\* Decoded (or undecodable) 2xx bodies each endpoint may answer with: the
\* product endpoint with or without a product, the search endpoint with or
\* without a products list.
Bodies(search_type) ==
    IF search_type = "barcode"
    THEN {Malformed,
          List(<<>>),
          Dict(EmptyDict),
          Dict("product" :> JNull),
          Dict("product" :> Dict(EmptyDict)),
          Dict("product" :> P_Milk)}
    ELSE {Malformed,
          List(<<>>),
          Dict(EmptyDict),
          Dict("products" :> List(<<>>)),
          Dict("products" :> List(<<P_Milk, P_Bare>>))}

\* Exceptions requests.get raises on a transport failure.
TransportFailures ==
    {[cls |-> "ConnectTimeout", msg |-> "timed out"]}

\* What one requests.get call may end in.
Responses(search_type) ==
    {[kind |-> "transport", exc |-> e] : e \in TransportFailures}
    \cup {[kind |-> "http", status |-> 404, body |-> Dict(EmptyDict)]}
    \cup {[kind |-> "http", status |-> 200, body |-> b] : b \in Bodies(search_type)}

\* ------------------------------------------------------------ the HTTP calls

NoExc == [cls |-> "none", msg |-> ""]

Raise(e) == [exc |-> e, value |-> None]

Return(v) == [exc |-> NoExc, value |-> v]

\* Classes deriving from requests.exceptions.RequestException.  Response.json()
\* raises requests.exceptions.JSONDecodeError (a RequestException) from
\* requests 2.27 on, and json.JSONDecodeError (a ValueError) before.
IsRequestException(e) ==
    e.cls \in {"ConnectTimeout", "ConnectionError", "HTTPError", "RequestsJSONDecodeError"}

JsonError(kind) ==
    IF kind = "RequestException"
    THEN [cls |-> "RequestsJSONDecodeError", msg |-> "Expecting value"]
    ELSE [cls |-> "JSONDecodeError", msg |-> "Expecting value"]

\* requests.get(...); r.raise_for_status(); return r.json()
HttpGetJson(resp, kind) ==
    IF resp.kind = "transport" THEN Raise(resp.exc)
    ELSE IF resp.status >= 400 /\ resp.status < 600
         THEN Raise([cls |-> "HTTPError", msg |-> ToString(resp.status)])
    ELSE IF resp.body = Malformed THEN Raise(JsonError(kind))
    ELSE Return(resp.body)

get_product_by_barcode(barcode, resp, kind) == HttpGetJson(resp, kind)

search_products(query, resp, kind) == HttpGetJson(resp, kind)

\* ------------------------------------------------------------ SearchWorker.run

\* Mutant of BarcodeProducts: the product is wrapped without the check that
\* there is one, so a body without the key raises KeyError.
BarcodeProductsUnchecked(result) ==
    IF result.t /= "dict"
    THEN Raise([cls |-> "AttributeError", msg |-> "no attribute get"])
    ELSE IF "product" \in DOMAIN result.d
         THEN Return(Dict("products" :> List(<<result.d["product"]>>)))
         ELSE Raise([cls |-> "KeyError", msg |-> "product"])

\* Lines 84-87: the barcode result in the shape the table expects.
BarcodeProducts(result) ==
    IF result.t /= "dict"
    THEN Raise([cls |-> "AttributeError", msg |-> "no attribute get"])
    ELSE IF Truthy(Get(result.d, "product"))
         THEN Return(Dict("products" :> List(<<result.d["product"]>>)))
         ELSE Return(Dict("products" :> List(<<>>)))

\* self.finished.emit(products): the signal is declared pyqtSignal(dict).
EmitFinished(r) ==
    IF r.exc /= NoExc THEN r
    ELSE IF r.value.t /= "dict"
         THEN Raise([cls |-> "TypeError", msg |-> "unexpected type"])
         ELSE r

\* The body of the try block of run: its outcome after the emit.
TryRun(search_type, query, resp, kind) ==
    IF search_type = "barcode"
    THEN LET r == get_product_by_barcode(query, resp, kind)
         IN  EmitFinished(IF r.exc /= NoExc THEN r ELSE BarcodeProducts(r.value))
    ELSE EmitFinished(search_products(query, resp, kind))

NetPrefix == "Oshibka seti: "

GenericPrefix == "Oshibka: "

\* Mutant of RunSignals: the generic except clause swallows the exception.
RunSignalsSwallow(search_type, query, resp, kind) ==
    LET r == TryRun(search_type, query, resp, kind)
    IN  IF r.exc = NoExc
        THEN <<[sig |-> "finished", arg |-> r.value]>>
        ELSE IF IsRequestException(r.exc)
             THEN <<[sig |-> "error", arg |-> <<NetPrefix, r.exc.msg>>]>>
             ELSE <<>>

\* The signals one run() emits, in order.
RunSignals(search_type, query, resp, kind) ==
    LET r == TryRun(search_type, query, resp, kind)
    IN  IF r.exc = NoExc
        THEN <<[sig |-> "finished", arg |-> r.value]>>
        ELSE IF IsRequestException(r.exc)
             THEN <<[sig |-> "error", arg |-> <<NetPrefix, r.exc.msg>>]>>
             ELSE <<[sig |-> "error", arg |-> <<GenericPrefix, r.exc.msg>>]>>

\* ------------------------------------------------------------ text and table

RECURSIVE lstrip(_)
lstrip(s) ==
    IF s = <<>> THEN s
    ELSE IF Head(s) \in Whitespace THEN lstrip(Tail(s)) ELSE s

RECURSIVE rstrip(_)
rstrip(s) ==
    IF s = <<>> THEN s
    ELSE IF s[Len(s)] \in Whitespace THEN rstrip(SubSeq(s, 1, Len(s) - 1)) ELSE s

\* Mutant of strip: the text is used as typed.
strip_none(s) == s

\* str.strip()
strip(s) == rstrip(lstrip(s))

NA == Str("N/A")

\* One row of display_products_in_table: the eight cell texts.
TableRow(product) ==
    LET p == product.d
        n == extract_kcal(GetOr(p, "nutriments", Dict(EmptyDict)).d)
    IN  <<GetOr(p, "code", NA).s,
          GetOr(p, "product_name", NA).s,
          GetOr(p, "brands", NA).s,
          PyStr(GetOr(n, "kcal_100g", NA)),
          PyStr(GetOr(n, "protein_100g", NA)),
          PyStr(GetOr(n, "fat_100g", NA)),
          PyStr(GetOr(n, "carbs_100g", NA)),
          PyStr(GetOr(p, "serving_size", NA))>>

\* The rows display_products_in_table leaves in the table.
display_products_in_table(products) ==
    LET products_list == GetOr(products.d, "products", List(<<>>)).l
    IN  [row \in 1..Len(products_list) |-> TableRow(products_list[row])]

\* len(products.get('products', []))
ProductCount(products) == Len(GetOr(products.d, "products", List(<<>>)).l)

\* ------------------------------------------------------------------- state

\* SearchWorker(search_type, query) right after construction.  nFinished and
\* nError count the finished / error callbacks delivered to the GUI thread.
SearchWorker(search_type, query) ==
    [search_type |-> search_type, query |-> query, state |-> "started",
     nFinished |-> 0, nError |-> 0]

StatusReady == "Gotov k poisku"

NoDialog == [kind |-> "none", text |-> <<>>]

\* What Response.json() raises on a malformed body, by the installed requests.
JsonErrorKinds == {"ValueError", "RequestException"}

\* CalorieFinderApp.__init__ / initUI
GuiInit ==
    /\ btn_enabled = [s \in Slots |-> TRUE]
    /\ progress_visible = [s \in Slots |-> FALSE]
    /\ table = [s \in Slots |-> <<>>]
    /\ status = <<StatusReady>>
    /\ dialog = NoDialog
    /\ search_worker = 0
    /\ workers = <<>>
    /\ queue = <<>>
    /\ json_error_kind \in JsonErrorKinds

Init ==
    /\ GuiInit
    /\ nutriments = EmptyDict
    /\ normalized = EmptyDict
    /\ normDone = FALSE

\* How a search handler is triggered: the line edit's returnPressed, or the
\* button's clicked, which a disabled button does not emit.
Triggered(slot) == \E via \in {"returnPressed", "clicked"} : via = "clicked" => btn_enabled[slot]

\* Lines 204-212 / 220-228: the search is started.
StartSearch(slot, query, message) ==
    /\ Len(workers) < MaxStarts
    /\ btn_enabled' = [btn_enabled EXCEPT ![slot] = FALSE]
    /\ progress_visible' = [progress_visible EXCEPT ![slot] = TRUE]
    /\ status' = <<message>>
    /\ workers' = Append(workers, SearchWorker(slot, query))
    /\ search_worker' = Len(workers) + 1
    /\ dialog' = NoDialog
    /\ UNCHANGED <<table, queue>>

\* Lines 200-202 / 216-218: the empty input is refused with a warning box.
RejectSearch(message) ==
    /\ dialog' = [kind |-> "warning", text |-> <<message>>]
    /\ UNCHANGED <<btn_enabled, progress_visible, table, status, search_worker,
                   workers, queue>>

search_by_barcode_text(text) ==
    /\ Triggered("barcode")
    /\ LET barcode == strip(text)
       IN  IF barcode = <<>>
           THEN RejectSearch("Vvedite shtrihkod")
           ELSE StartSearch("barcode", barcode, "Poisk po shtrihkodu...")
    /\ UNCHANGED <<json_error_kind, normVars>>

search_by_barcode == \E text \in TextInputs : search_by_barcode_text(text)

search_by_name_text(text) ==
    /\ Triggered("name")
    /\ LET name == strip(text)
       IN  IF name = <<>>
           THEN RejectSearch("Vvedite nazvanie produkta")
           ELSE StartSearch("name", name, "Poisk po nazvaniyu...")
    /\ UNCHANGED <<json_error_kind, normVars>>

search_by_name == \E text \in TextInputs : search_by_name_text(text)

\* The signals of worker w's run, as they are queued to the GUI thread.
Queued(w, signals) ==
    [i \in 1..Len(signals) |-> [w |-> w, sig |-> signals[i].sig, arg |-> signals[i].arg]]

\* SearchWorker.run in its own thread, its network call ending in resp: the
\* signals it emits are queued to the GUI thread in emission order.
run(w, resp) ==
    /\ workers[w].state = "started"
    /\ queue' = queue \o Queued(w, RunSignals(workers[w].search_type, workers[w].query,
                                              resp, json_error_kind))
    /\ workers' = [workers EXCEPT ![w].state = "returned"]
    /\ UNCHANGED <<btn_enabled, progress_visible, table, status, dialog,
                   search_worker, json_error_kind, normVars>>

RunWorker == \E w \in 1..Len(workers) : \E resp \in Responses(workers[w].search_type) : run(w, resp)

FoundStatus(products) == <<"Naideno produktov: ", ToString(ProductCount(products))>>

\* Lines 230-235, for the signal at the head of the GUI thread's queue.
on_barcode_search_finished ==
    /\ queue /= <<>>
    /\ Head(queue).sig = "finished"
    /\ workers[Head(queue).w].search_type = "barcode"
    /\ btn_enabled' = [btn_enabled EXCEPT !["barcode"] = TRUE]
    /\ progress_visible' = [progress_visible EXCEPT !["barcode"] = FALSE]
    /\ table' = [table EXCEPT !["barcode"] = display_products_in_table(Head(queue).arg)]
    /\ status' = FoundStatus(Head(queue).arg)
    /\ workers' = [workers EXCEPT ![Head(queue).w].nFinished = @ + 1]
    /\ queue' = Tail(queue)
    /\ dialog' = NoDialog
    /\ UNCHANGED <<search_worker, json_error_kind, normVars>>

\* Mutant of on_name_search_finished: the progress bar is left visible.
on_name_search_finished_keeps_progress ==
    /\ queue /= <<>>
    /\ Head(queue).sig = "finished"
    /\ workers[Head(queue).w].search_type = "name"
    /\ btn_enabled' = [btn_enabled EXCEPT !["name"] = TRUE]
    /\ table' = [table EXCEPT !["name"] = display_products_in_table(Head(queue).arg)]
    /\ status' = FoundStatus(Head(queue).arg)
    /\ workers' = [workers EXCEPT ![Head(queue).w].nFinished = @ + 1]
    /\ queue' = Tail(queue)
    /\ dialog' = NoDialog
    /\ UNCHANGED <<progress_visible, search_worker, json_error_kind, normVars>>

\* Lines 237-242.
on_name_search_finished ==
    /\ queue /= <<>>
    /\ Head(queue).sig = "finished"
    /\ workers[Head(queue).w].search_type = "name"
    /\ btn_enabled' = [btn_enabled EXCEPT !["name"] = TRUE]
    /\ progress_visible' = [progress_visible EXCEPT !["name"] = FALSE]
    /\ table' = [table EXCEPT !["name"] = display_products_in_table(Head(queue).arg)]
    /\ status' = FoundStatus(Head(queue).arg)
    /\ workers' = [workers EXCEPT ![Head(queue).w].nFinished = @ + 1]
    /\ queue' = Tail(queue)
    /\ dialog' = NoDialog
    /\ UNCHANGED <<search_worker, json_error_kind, normVars>>

\* Lines 244-252.
on_search_error ==
    /\ queue /= <<>>
    /\ Head(queue).sig = "error"
    /\ btn_enabled' = [s \in Slots |-> TRUE]
    /\ progress_visible' = [s \in Slots |-> FALSE]
    /\ dialog' = [kind |-> "critical", text |-> Head(queue).arg]
    /\ status' = <<"Oshibka pri poiske">>
    /\ workers' = [workers EXCEPT ![Head(queue).w].nError = @ + 1]
    /\ queue' = Tail(queue)
    /\ UNCHANGED <<table, search_worker, json_error_kind, normVars>>

Next ==
    \/ search_by_barcode
    \/ search_by_name
    \/ RunWorker
    \/ on_barcode_search_finished
    \/ on_name_search_finished
    \/ on_search_error

Spec == Init /\ [][Next]_vars

\* ------------------------------------------------- extract_kcal on its own

NutrientValues == {JNull, Str("")} \cup {Num(v) : v \in 0..MaxVal}

\* Nutrient mappings with at most MaxKeys of the provider's keys (and one key
\* the extraction does not know).
NutrimentInputs ==
    UNION {[ks -> NutrientValues] :
             ks \in {x \in SUBSET (ProviderKeys \cup {"salt_100g"}) : Cardinality(x) <= MaxKeys}}

NormInit ==
    /\ GuiInit
    /\ nutriments \in NutrimentInputs
    /\ normalized = EmptyDict
    /\ normDone = FALSE

Normalize ==
    /\ ~normDone
    /\ normalized' = extract_kcal(nutriments)
    /\ normDone' = TRUE
    /\ UNCHANGED <<nutriments, guiVars>>

NormNext == Normalize

NormSpec == NormInit /\ [][NormNext]_vars

\* ------------------------------------------------------------ claim helpers

WorkerIds == 1..Len(workers)

\* Callbacks of worker w delivered to the GUI thread so far.
DeliveredCount(w) == workers[w].nFinished + workers[w].nError

Delivered(w) == DeliveredCount(w) > 0

\* Signals of worker w still queued to the GUI thread.
PendingCount(w) == Cardinality({i \in 1..Len(queue) : queue[i].w = w})

\* Worker w's run returns in this step.
ReturnedNow(w) == workers[w].state = "started" /\ workers'[w].state = "returned"

\* Worker w's callback is delivered in this step.
DeliveredNow(w) == DeliveredCount(w)' > DeliveredCount(w)

\* The signals a run step appends to the queue.
EmittedNow == SubSeq(queue', Len(queue) + 1, Len(queue'))

IsBlank(text) == \A i \in 1..Len(text) : text[i] \in Whitespace

Is2xx(resp) == resp.kind = "http" /\ resp.status >= 200 /\ resp.status <= 299

\* ------------------------------------------------------------------ claims

\* C1: supersession.  When a later-started request of a slot has already had
\* its result delivered, the result of the earlier-started request of that
\* slot, arriving late, is discarded: its callback is never delivered.
C1_StaleResultDiscarded ==
    [][\A w \in WorkerIds :
          DeliveredNow(w) =>
              ~\E v \in WorkerIds :
                  /\ v > w
                  /\ workers[v].search_type = workers[w].search_type
                  /\ Delivered(v)]_vars

\* C2: every worker whose run has returned has emitted exactly one terminal
\* signal, finished or error, which is either still queued or delivered once;
\* a worker whose run has not returned has emitted none.
C2_ExactlyOneCallback ==
    \A w \in WorkerIds :
        /\ workers[w].state = "started" => DeliveredCount(w) = 0 /\ PendingCount(w) = 0
        /\ workers[w].state = "returned" => DeliveredCount(w) + PendingCount(w) = 1

\* C2 witness: one worker got the success callback and another the failure one.
C2_Witness ==
    \E w \in WorkerIds : \E v \in WorkerIds :
        /\ workers[w].nFinished = 1 /\ workers[w].nError = 0
        /\ workers[v].nFinished = 0 /\ workers[v].nError = 1
        /\ queue = <<>>

\* C3: failure classification.  A run whose network call ends in a transport
\* failure or a non-2xx status emits error with the network prefix and the
\* underlying message; a run that fails in any other way (a 2xx body that is
\* malformed JSON, or JSON of the wrong shape) emits error with the generic
\* prefix.
C3_FailureClassification ==
    [][\A w \in WorkerIds : ReturnedNow(w) =>
          \A resp \in Responses(workers[w].search_type) : run(w, resp) =>
              /\ ~Is2xx(resp) =>
                    /\ Len(EmittedNow) = 1
                    /\ EmittedNow[1].sig = "error"
                    /\ EmittedNow[1].arg[1] = NetPrefix
                    /\ resp.kind = "transport" => EmittedNow[1].arg[2] = resp.exc.msg
              /\ (Is2xx(resp) /\ (resp.body = Malformed \/ resp.body.t /= "dict")) =>
                    /\ Len(EmittedNow) = 1
                    /\ EmittedNow[1].sig = "error"
                    /\ EmittedNow[1].arg[1] = GenericPrefix]_vars

\* The part of a slot's state the other slot's events must leave alone: its
\* requests not yet delivered, its queued signals, indicator, button and table.
SlotState(s) ==
    <<progress_visible[s], btn_enabled[s], table[s],
      {<<w, workers[w]>> : w \in {x \in WorkerIds : workers[x].search_type = s /\ ~Delivered(x)}},
      SelectSeq(queue, LAMBDA q : workers[q.w].search_type = s)>>

\* A start, success delivery or failure delivery of slot s.
SlotEvent(s) ==
    \/ (s = "barcode" /\ search_by_barcode)
    \/ (s = "name" /\ search_by_name)
    \/ (s = "barcode" /\ on_barcode_search_finished)
    \/ (s = "name" /\ on_name_search_finished)
    \/ (on_search_error /\ workers[Head(queue).w].search_type = s)

\* C4: slot independence.  Any event of one slot leaves the other slot's
\* in-flight requests, in-progress indicator, button state and table unchanged.
C4_SlotIndependence ==
    [][/\ SlotEvent("barcode") => SlotState("name")' = SlotState("name")
       /\ SlotEvent("name") => SlotState("barcode")' = SlotState("barcode")]_vars

\* C5: kcal_100g of the output is energy-kcal_100g whenever that key is
\* present and non-null, whatever its value, and energy-kcal_value only when
\* energy-kcal_100g is absent or null.
C5_KcalPrimaryWins ==
    normDone =>
        LET primary == Get(nutriments, "energy-kcal_100g")
            fallback == Get(nutriments, "energy-kcal_value")
        IN  IF primary /= None
            THEN Get(normalized, "kcal_100g") = primary
            ELSE Get(normalized, "kcal_100g") = fallback

\* The provider value a target field is taken from, None when there is none.
SourceValue(n, target) ==
    CASE target = "kcal_100g" ->
            IF Get(n, "energy-kcal_100g") /= None
            THEN Get(n, "energy-kcal_100g") ELSE Get(n, "energy-kcal_value")
      [] target = "protein_100g" -> Get(n, "proteins_100g")
      [] target = "fat_100g" -> Get(n, "fat_100g")
      [] target = "carbs_100g" -> Get(n, "carbohydrates_100g")
      [] target = "kcal_serving" -> Get(n, "energy-kcal_serving")
      [] target = "protein_serving" -> Get(n, "proteins_serving")
      [] target = "fat_serving" -> Get(n, "fat_serving")
      [] target = "carbs_serving" -> Get(n, "carbohydrates_serving")

\* C6: the output's keys are among the eight target names, and each target
\* field is in the output exactly when its provider key exists with a
\* non-null value, which is then passed through unchanged.
C6_PresencePreserving ==
    normDone =>
        /\ DOMAIN normalized \subseteq TargetKeys
        /\ \A target \in TargetKeys :
              /\ target \in DOMAIN normalized <=> SourceValue(nutriments, target) /= None
              /\ target \in DOMAIN normalized =>
                    normalized[target] = SourceValue(nutriments, target)

NoProducts == Dict("products" :> List(<<>>))

\* The product of a 2xx barcode body, None when the body has none (the field
\* absent or null).
BodyProduct(body) == IF body.t = "dict" THEN Get(body.d, "product") ELSE None

CanDeliver ==
    /\ queue /= <<>>
    /\ \/ Head(queue).sig = "error"
       \/ Head(queue).sig = "finished" /\ workers[Head(queue).w].search_type \in Slots

\* C8: whenever a terminal callback of a slot's request is delivered, on the
\* success path or the failure path, that slot's indicator is hidden and its
\* button enabled right after; and a request whose network call has returned
\* (or timed out) is never stuck short of that: until its callback is
\* delivered, the callback is queued and the event loop can deliver.
C8_DeliveryClearsIndicator ==
    [][/\ \A w \in WorkerIds :
            DeliveredNow(w) =>
                /\ ~progress_visible'[workers[w].search_type]
                /\ btn_enabled'[workers[w].search_type]
       /\ \A w \in 1..Len(workers') :
            (workers'[w].state = "returned" /\ ~Delivered(w)') =>
                (PendingCount(w)' = 1 /\ CanDeliver')]_vars

\* C8 witness: a request that timed out has had its failure delivered and its
\* slot's indicator is hidden.
C8_Witness ==
    \E w \in WorkerIds :
        /\ workers[w].nError = 1
        /\ dialog = [kind |-> "critical", text |-> <<NetPrefix, "timed out">>]
        /\ ~progress_visible[workers[w].search_type]
        /\ btn_enabled[workers[w].search_type]

\* C9: validation.  A search handler run on a text that is empty after
\* trimming creates no worker, issues no request and leaves the indicators,
\* buttons and tables as they were.
C9_BlankQueryRejected ==
    [][\A text \in TextInputs :
          (IsBlank(text) /\ (search_by_barcode_text(text) \/ search_by_name_text(text))) =>
              UNCHANGED <<workers, queue, search_worker, progress_visible,
                          btn_enabled, table>>]_vars

\* C9 witness: a whitespace-only input was refused with the warning box while
\* an earlier request of the slot was still in flight.
C9_Witness ==
    /\ dialog = [kind |-> "warning", text |-> <<"Vvedite shtrihkod">>]
    /\ Len(workers) = 1
    /\ workers[1].search_type = "barcode"
    /\ workers[1].state = "started"
    /\ progress_visible["barcode"]

\* C10: while some request of a slot has not had its terminal callback
\* delivered, the slot's indicator is visible and its button disabled.
C10_InFlightKeepsIndicator ==
    \A s \in Slots :
        (\E w \in WorkerIds : workers[w].search_type = s /\ ~Delivered(w)) =>
            (progress_visible[s] /\ ~btn_enabled[s])

====
